---- MODULE Spec2Model ----
(***************************************************************************)
(* Import-session lifecycle of the Job-Importer.                           *)
(*                                                                         *)
(* Server side: POST /api/import/start in its two variants (the mocked     *)
(* route of Server/app.js, identical in unnamed/part_002, and the          *)
(* fetching route with processImport of unnamed/part_001), and the         *)
(* BullMQ worker 'job-import' (second half of Server/app.js).              *)
(*                                                                         *)
(* Granularity: one action per await point.  An action is the database     *)
(* operation taking effect (or throwing) followed by the synchronous code  *)
(* up to the next await.                                                   *)
(***************************************************************************)
EXTENDS Integers, Sequences, FiniteSets, TLC

\* ---------------------------------------------------------------- bounds
\* number of import sessions (route requests and worker jobs together)
MaxSessions == 2

\* imports the modelled browser starts
MaxClientImports == 1
\* status polls of one import that are explored
MaxPolls == 2
\* Broadcasts explored.
MaxEvents == 2
\* Postings of a feed whose loop is followed posting by posting.
MaxItems == 3
\* Outcome notifications of one session that are explored.
MaxHandled == 2

\* -------------------------------------------------------------- constants
\* Math.floor(Math.random() * 100) + 10 and its siblings: the least values
MockTotalJobsMin == 10
MockNewJobsMin == 5
MockUpdatedJobsMin == 2
MockFailedJobsMin == 1
\* jobQueue.add(..., { attempts: 3 })
QueueAttempts == 3
\* pollImportStatus: maxAttempts, maxConsecutiveErrors
PollMaxAttempts == 60
MaxConsecutiveErrors == 3
\* useWebSocket: maxReconnectAttempts
MaxReconnectAttempts == 5
\* setTimeout(poll, 2000): the wait in ms before the first status poll
PollStartDelay == 2000

Feeds == {"F", "G"}
SessionIds == 1..MaxSessions
\* which app.js is deployed: the mocked route or the fetching one
Apps == {"mock", "fetch"}

\* The WebSocket clients that come and go.
Subscribers == {"a", "b"}

\* Samples of the four independent Math.random() draws of the mocked route
\* (totalJobs, newJobs, updatedJobs, failedJobs): the least values, whose
\* parts sum to 8, and a draw whose parts happen to sum to totalJobs.
MockDraws ==
  { <<MockTotalJobsMin, MockNewJobsMin, MockUpdatedJobsMin, MockFailedJobsMin>>,
    <<MockTotalJobsMin, MockNewJobsMin + 1, MockUpdatedJobsMin, MockFailedJobsMin + 1>> }

VARIABLES
  app,        \* the deployed route variant
  feeds,      \* JobFeed collection: feed id -> document
  logs,       \* ImportLog collection: session id -> document
  task,       \* per session: position of its request / out-of-band step
  broadcasts, \* per session: how many events of each type were broadcast
  responded,  \* per session: the 202 response was sent
  procRuns,   \* per session: times the processing step was entered
  feedWrites, \* per session: successful feed-aggregate writes it made
  wire,       \* events sent to the browser's socket, not yet received
  \* the browser: EnhancedFeedManager with its useWebSocket hook
  importingFeeds,   \* state importingFeeds
  completedImports, \* state completedImports
  imports,          \* per session: handleImportFeed / pollImportStatus closure
  isConnected,      \* useWebSocket: isConnected
  lastMessage,      \* useWebSocket: lastMessage
  effectPending,    \* the message effect is due to run
  notified,         \* per session: outcome toasts shown (completed or failed)
  refreshes,        \* per session: refreshes of the listings triggered
  \* a caller of the HTTP API
  reply,            \* what the last call of ApiClient gave its caller
  \* the useWebSocket hook
  mounted,           \* the hook's effect ran and its cleanup did not
  ws,                \* ws.current: "null" or the state of that socket
  orphanClosing,     \* a socket the cleanup closed has its close event due
  reconnectAttempts, \* reconnectAttempts.current
  reconnectTimer,    \* reconnectTimeoutRef: a reconnect timeout is pending
  connectionError,   \* state connectionError ("null" or the message)
  socketsTried,      \* new WebSocket(url) calls since the last open
  \* the WebSocket server and its subscribers
  wssClients,  \* global.wss.clients: subscriber -> readyState of its socket
  peerUp,      \* subscriber -> its end of the connection is alive
  events,      \* calls of broadcastWebSocketMessage so far
  inbox,       \* subscriber -> event -> times the event reached it
  stateAt,     \* event -> subscriber -> its connection when it was broadcast
  hubLast,     \* subscriber -> the last message that reached it
  \* EnhancedFeedManager: the feed list and its switches
  shown,         \* state feeds: feed id -> the isActive it displays
  updatingFeeds, \* state updatingFeeds
  toggles,       \* feed id -> the handleToggleFeed call in flight
  feedsData,     \* what a getFeeds request in flight will return
  \* one run of a per-posting loop, posting by posting
  loop           \* its postings, position, counters and classifications

\* What the browser component's own steps leave alone.
socketVars ==
  <<mounted, ws, orphanClosing, reconnectAttempts, reconnectTimer,
    connectionError, socketsTried>>
hubVars == <<wssClients, peerUp, events, inbox, stateAt, hubLast>>
toggleVars == <<shown, updatingFeeds, toggles, feedsData>>
loopVars == <<loop>>
envVars == <<reply, socketVars, hubVars, toggleVars, loopVars>>
\* Everything outside the server.
clientVars ==
  <<importingFeeds, completedImports, imports, isConnected, lastMessage,
    effectPending, notified, refreshes, envVars>>
vars ==
  <<app, feeds, logs, task, broadcasts, responded, procRuns, feedWrites, wire,
    importingFeeds, completedImports, imports, isConnected, lastMessage,
    effectPending, notified, refreshes, reply,
    mounted, ws, orphanClosing, reconnectAttempts, reconnectTimer,
    connectionError, socketsTried,
    wssClients, peerUp, events, inbox, stateAt, hubLast,
    shown, updatingFeeds, toggles, feedsData, loop>>

\* ------------------------------------------------------------- documents
NoCounts ==
  [totalJobs |-> 0, newJobs |-> 0, updatedJobs |-> 0, failedJobs |-> 0,
   failedJobDetails |-> <<>>]

\* No document under this id.
NoLog ==
  [status |-> "none", feed |-> "", totalJobs |-> 0, totalImported |-> 0,
   newJobs |-> 0, updatedJobs |-> 0, failedJobs |-> 0, failedJobDetails |-> <<>>]

\* Mutant: the session is created already carrying a result.
NewImportLog_Terminal(f) ==
  [status |-> "completed", feed |-> f, totalJobs |-> 1, totalImported |-> 1,
   newJobs |-> 1, updatedJobs |-> 0, failedJobs |-> 0, failedJobDetails |-> <<>>]

\* ImportLog.create({feedUrl, totalJobs: 0, newJobs: 0, updatedJobs: 0,
\* failedJobs: 0, status: 'in_progress'}); the schema defaults fill the rest.
NewImportLog(f) ==
  [status |-> "in_progress", feed |-> f, totalJobs |-> 0, totalImported |-> 0,
   newJobs |-> 0, updatedJobs |-> 0, failedJobs |-> 0, failedJobDetails |-> <<>>]

\* JobFeed schema defaults: isActive true, totalJobsImported 0, no lastImport (0 = never;
\* otherwise the instant is named by the session whose step took new Date()).
NewJobFeed == [totalJobsImported |-> 0, lastImport |-> 0, isActive |-> TRUE]

\* origin: "route" for a POST /api/import/start request, "queue" for a job
\* of the 'job-import' queue; fetched: the feed's content was obtained.
IdleTask ==
  [pc |-> "idle", origin |-> "", feedId |-> "", fetched |-> FALSE,
   feedTotal |-> 0, counts |-> NoCounts, attemptsMade |-> 0]

\* A handler that has returned: its locals are gone.
Ended(t, pc) ==
  [IdleTask EXCEPT !.pc = pc, !.origin = t.origin, !.feedId = t.feedId,
                   !.fetched = t.fetched]

NoBroadcasts == [import_started |-> 0, import_completed |-> 0, import_failed |-> 0]

\* broadcastWebSocketMessage(type, {importId: s, ...}): sent to each client
\* whose socket is open.
Broadcast(s, type) ==
  /\ broadcasts' = [broadcasts EXCEPT ![s][type] = @ + 1]
  /\ wire' = IF isConnected
               THEN Append(wire, [type |-> type, importId |-> s])
               ELSE wire

\* ----------------------------------------------------------------- mock
\* Mutant: the loop stops one short (i < failedJobs - 1).
MockFailedJobDetails_OneShort(n) == [i \in 1..(n - 1) |-> i]

\* for (i = 0; i < failedJobs; i++) push({jobId: `mock_failed_job_${i + 1}`, ...})
MockFailedJobDetails(n) == [i \in 1..n |-> i]

MockJobCounts ==
  { [totalJobs |-> d[1], newJobs |-> d[2], updatedJobs |-> d[3],
     failedJobs |-> d[4], failedJobDetails |-> MockFailedJobDetails(d[4])] :
      d \in MockDraws }

\* ------------------------------------------------------------------ Init
NoMessage == [type |-> "none", importId |-> 0]

\* No handleToggleFeed call in flight; last is how the latest call ended.
NoToggle == [pc |-> "none", currentStatus |-> FALSE, last |-> "none"]

\* No getFeeds request in flight.
NoFeedsData == [pc |-> "none", isActive |-> [f \in Feeds |-> FALSE]]

\* No per-posting loop entered.  outcomes[i] is what posting i was
\* classified as, in the order the loop took the postings.
NoLoop ==
  [pc |-> "none", origin |-> "", items |-> <<>>, i |-> 1, counts |-> NoCounts,
   outcomes |-> <<>>]

\* No call made yet.  A reply is what the caller of ApiClient sees: whether
\* the call threw, and the value or the Error message it got; code is the
\* HTTP status behind it.
NoReply ==
  [call |-> "none", feedId |-> "", importId |-> 0, code |-> 0,
   threw |-> FALSE, status |-> "", progress |-> 0, message |-> ""]

\* pollImportStatus's locals, and the completedImports its closure sees;
\* timer is the delay in ms of the pending setTimeout(poll, ...), 0 for none.
NoImport ==
  [pc |-> "none", feedId |-> "", attempts |-> 0, consecutiveErrors |-> 0,
   completedImports |-> {}, seen |-> "", raised |-> "none", timer |-> 0]

InitServer ==
  /\ app \in Apps
  /\ feeds = [f \in Feeds |-> NewJobFeed]
  /\ logs = [s \in SessionIds |-> NoLog]
  /\ task = [s \in SessionIds |-> IdleTask]
  /\ broadcasts = [s \in SessionIds |-> NoBroadcasts]
  /\ responded = [s \in SessionIds |-> FALSE]
  /\ procRuns = [s \in SessionIds |-> 0]
  /\ feedWrites = [s \in SessionIds |-> 0]
  /\ wire = <<>>

\* useState initial values; connected tells whether the socket is open.
InitClient(connected) ==
  /\ importingFeeds = {}
  /\ completedImports = {}
  /\ imports = [s \in SessionIds |-> NoImport]
  /\ isConnected = connected
  /\ lastMessage = NoMessage
  /\ effectPending = FALSE
  /\ notified = [s \in SessionIds |-> 0]
  /\ refreshes = [s \in SessionIds |-> 0]
  /\ reply = NoReply
  /\ mounted = IF connected THEN "mounted" ELSE "pending"
  /\ ws = IF connected THEN "OPEN" ELSE "null"
  /\ orphanClosing = FALSE
  /\ reconnectAttempts = 0
  /\ reconnectTimer = FALSE
  /\ connectionError = "null"
  /\ socketsTried = 0
  /\ wssClients = [c \in Subscribers |-> "none"]
  /\ peerUp = [c \in Subscribers |-> FALSE]
  /\ events = 0
  /\ inbox = [c \in Subscribers |-> [e \in 1..MaxEvents |-> 0]]
  /\ stateAt = [e \in 1..MaxEvents |-> [c \in Subscribers |-> "none"]]
  /\ hubLast = [c \in Subscribers |-> NoMessage]
  /\ shown = [f \in Feeds |-> NewJobFeed.isActive]
  /\ updatingFeeds = {}
  /\ toggles = [f \in Feeds |-> NoToggle]
  /\ feedsData = NoFeedsData
  /\ loop = NoLoop

\* The server with no browser attached.
Init ==
  /\ InitServer
  /\ InitClient(FALSE)

\* Requests and queue jobs take the session slots in order.
NextSlot(s) ==
  /\ task[s].pc = "idle"
  /\ \A t \in SessionIds : t < s => task[t].pc # "idle"

\* ------------------------------------------------- POST /api/import/start
\* const feed = await JobFeed.findById(feedId): the handler keeps this copy.
FindFeed(s, f) ==
  /\ NextSlot(s)
  /\ task' = [task EXCEPT ![s] =
       [IdleTask EXCEPT !.pc = "creating", !.origin = "route", !.feedId = f,
                        !.feedTotal = feeds[f].totalJobsImported]]
  /\ UNCHANGED <<app, feeds, logs, broadcasts, wire, responded, procRuns, feedWrites>>

\* A request that does not come from the modelled browser.
StartFindFeed(s, f) ==
  /\ FindFeed(s, f)
  /\ UNCHANGED clientVars

\* await ImportLog.create(...); res.status(202); broadcast import_started;
\* then setTimeout(...) (mock) or processImport(...) up to its first await.
StartCreateLog(s) ==
  /\ task[s].pc = "creating"
  /\ \/ /\ logs' = [logs EXCEPT ![s] = NewImportLog(task[s].feedId)]
        /\ responded' = [responded EXCEPT ![s] = TRUE]
        /\ IF app = "mock"
             THEN /\ Broadcast(s, "import_started")
                  /\ task' = [task EXCEPT ![s].pc = "timer"]
                  /\ UNCHANGED procRuns
             ELSE /\ task' = [task EXCEPT ![s].pc = "fetching"]
                  /\ procRuns' = [procRuns EXCEPT ![s] = @ + 1]
                  /\ UNCHANGED <<broadcasts, wire>>
     \/ \* create throws: 500, nothing else happens
        /\ task' = [task EXCEPT ![s] = Ended(@, "rejected")]
        /\ UNCHANGED <<logs, responded, broadcasts, wire, procRuns>>
  /\ UNCHANGED <<app, feeds, feedWrites>>
  /\ UNCHANGED clientVars

\* ----------------------------------------------------- per-posting loops
\* A posting is named by what one pass of the loop does with it.
\* Sample feeds: empty, every posting failing, and a mix.
FetchedFeeds ==
  { <<>>, <<"throws">>, <<"fresh", "existing">>, <<"fresh", "throws">> }
QueuedFeeds ==
  { <<>>, <<"noId">>, <<"inserted", "existing">>, <<"inserted", "throws">> }

\* part_001 processImport: Job.findOne(...) ? update, updatedJobs++ :
\* create, newJobs++; a throw inside the try is caught, failedJobs++.
FetchOutcome(kind) ==
  CASE kind = "fresh" -> "new"
    [] kind = "existing" -> "updated"
    [] OTHER -> "failed"

\* worker: no guid/link/title throws; findOneAndUpdate(upsert) may throw;
\* res.createdAt.getTime() === res.updatedAt.getTime() ? newJobs++ : updatedJobs++
\* (an inserted document has equal stamps only if both were taken in the
\* same millisecond).
WorkerOutcome(kind) ==
  CASE kind = "inserted" -> "new"
    [] kind \in {"insertedLater", "existing"} -> "updated"
    [] OTHER -> "failed"

\* The counters after the loop ran over the postings, in order; a failure
\* detail names the posting by its position.
RECURSIVE Tally(_)
Tally(outcomes) ==
  IF outcomes = <<>> THEN NoCounts
  ELSE LET n == Len(outcomes)
           c == Tally(SubSeq(outcomes, 1, n - 1))
       IN CASE outcomes[n] = "new" -> [c EXCEPT !.newJobs = @ + 1]
            [] outcomes[n] = "updated" -> [c EXCEPT !.updatedJobs = @ + 1]
            [] OTHER -> [c EXCEPT !.failedJobs = @ + 1,
                                  !.failedJobDetails = Append(@, n)]

\* part_001: totalJobs: newJobs + updatedJobs + failedJobs
FetchCounts(items) ==
  LET c == Tally([i \in 1..Len(items) |-> FetchOutcome(items[i])])
  IN [c EXCEPT !.totalJobs = c.newJobs + c.updatedJobs + c.failedJobs]

\* worker: totalFetched = jobItems.length
WorkerCounts(items) ==
  LET c == Tally([i \in 1..Len(items) |-> WorkerOutcome(items[i])])
  IN [c EXCEPT !.totalJobs = Len(items)]

\* -------------------------------- the per-posting loops, posting by posting
\* What one pass of either loop can do with a posting.
FetchKinds == {"fresh", "existing", "throws"}
WorkerKinds == {"inserted", "insertedLater", "existing", "noId", "throws"}

\* The feeds of up to MaxItems postings over the given kinds.
FeedsOver(kinds) ==
  UNION {[1..n -> kinds] : n \in 0..MaxItems}

loopFrame ==
  <<app, feeds, logs, task, broadcasts, responded, procRuns, feedWrites, wire,
    importingFeeds, completedImports, imports, isConnected, lastMessage,
    effectPending, notified, refreshes, reply, socketVars, hubVars,
    toggleVars>>

\* The counters are initialised and the loop is entered:
\* part_001 processImport ("route") or the job-import worker ("queue").
LoopStart(origin, items) ==
  /\ loop.pc = "none"
  /\ loop' = [NoLoop EXCEPT !.pc = "looping", !.origin = origin,
                            !.items = items]
  /\ UNCHANGED loopFrame

\* The counters after one pass of the loop body over a posting classified
\* as outcome: the try block counts it as new or updated, the catch block
\* counts it as failed and pushes its detail.
Count(c, outcome, position) ==
  CASE outcome = "new" -> [c EXCEPT !.newJobs = @ + 1]
    [] outcome = "updated" -> [c EXCEPT !.updatedJobs = @ + 1]
    [] OTHER -> [c EXCEPT !.failedJobs = @ + 1,
                          !.failedJobDetails = Append(@, position)]

\* Mutant: no try/catch around the loop body; a throw ends the loop.
LoopBody_Aborts ==
  LET kind == loop.items[loop.i]
      outcome == IF loop.origin = "route" THEN FetchOutcome(kind)
                                          ELSE WorkerOutcome(kind)
  IN IF outcome = "failed"
       THEN [loop EXCEPT !.pc = "done"]
       ELSE [loop EXCEPT !.i = @ + 1,
                         !.counts = Count(@, outcome, loop.i),
                         !.outcomes = Append(@, outcome)]

\* for (const item of items) { try { ... } catch (err) { ... } }: one pass.
LoopBody ==
  LET kind == loop.items[loop.i]
      outcome == IF loop.origin = "route" THEN FetchOutcome(kind)
                                          ELSE WorkerOutcome(kind)
  IN [loop EXCEPT !.i = @ + 1,
                  !.counts = Count(@, outcome, loop.i),
                  !.outcomes = Append(@, outcome)]

ProcessPosting ==
  /\ loop.pc = "looping"
  /\ loop.i <= Len(loop.items)
  /\ loop' = LoopBody
  /\ UNCHANGED loopFrame

\* The loop is left; totalJobs is what the code stores with the counters:
\* newJobs + updatedJobs + failedJobs (part_001), jobItems.length (worker).
LoopEnd ==
  /\ loop.pc = "looping"
  /\ loop.i > Len(loop.items)
  /\ loop' = [loop EXCEPT
       !.pc = "done",
       !.counts.totalJobs =
          IF loop.origin = "route"
            THEN loop.counts.newJobs + loop.counts.updatedJobs
                   + loop.counts.failedJobs
            ELSE Len(loop.items)]
  /\ UNCHANGED loopFrame

\* ------------------------------------------------ out-of-band processing
\* Mutant: a repeating timer (setInterval) instead of setTimeout.
TimerFire_Repeating(s) ==
  /\ task[s].pc \in {"timer", "log", "feed"}
  /\ \E c \in MockJobCounts :
       task' = [task EXCEPT ![s].pc = "log", ![s].counts = c]
  /\ procRuns' = [procRuns EXCEPT ![s] = @ + 1]
  /\ UNCHANGED <<app, feeds, logs, broadcasts, wire, responded, feedWrites>>
  /\ UNCHANGED clientVars

\* mock: the setTimeout callback starts and draws mockJobCounts.
TimerFire(s) ==
  /\ task[s].pc = "timer"
  /\ \E c \in MockJobCounts :
       task' = [task EXCEPT ![s].pc = "log", ![s].counts = c]
  /\ procRuns' = [procRuns EXCEPT ![s] = @ + 1]
  /\ UNCHANGED <<app, feeds, logs, broadcasts, wire, responded, feedWrites>>
  /\ UNCHANGED clientVars

\* part_001 processImport: await fetch(feed.url) and the per-posting loop.
FetchFeed(s) ==
  /\ task[s].pc = "fetching"
  /\ \/ \E items \in FetchedFeeds :
          task' = [task EXCEPT ![s].pc = "log", ![s].fetched = TRUE,
                                  ![s].counts = FetchCounts(items)]
     \/ \* fetch throws or !response.ok
        task' = [task EXCEPT ![s].pc = "catch"]
  /\ UNCHANGED <<app, feeds, logs, broadcasts, wire, responded, procRuns, feedWrites>>
  /\ UNCHANGED clientVars

\* The document ImportLog.findByIdAndUpdate(id, {..., status: 'completed'})
\* leaves (nothing, if the document is gone).  The mocked route sets
\* totalImported, part_001 does not.
CompletedLog(log, c) ==
  IF log.status = "none" THEN log ELSE
  [log EXCEPT !.status = "completed",
              !.totalJobs = c.totalJobs,
              !.newJobs = c.newJobs,
              !.updatedJobs = c.updatedJobs,
              !.failedJobs = c.failedJobs,
              !.failedJobDetails = c.failedJobDetails,
              !.totalImported =
                 IF app = "mock" THEN c.newJobs + c.updatedJobs ELSE @]

CompleteLogUpdate(s) ==
  /\ task[s].pc = "log"
  /\ \/ /\ logs' = [logs EXCEPT ![s] = CompletedLog(@, task[s].counts)]
        /\ task' = [task EXCEPT ![s].pc = "feed"]
     \/ \* the update throws
        /\ task' = [task EXCEPT ![s].pc = "catch"]
        /\ UNCHANGED logs
  /\ UNCHANGED <<app, feeds, broadcasts, wire, responded, procRuns, feedWrites>>
  /\ UNCHANGED clientVars

\* JobFeed.findByIdAndUpdate(feedId, {lastImport: new Date(),
\*   totalJobsImported: (feed.totalJobsImported || 0) + newJobs})
\* where feed is the copy read when the request came in.
RouteFeedUpdate(feed, s) ==
  [feed EXCEPT !.lastImport = s,
               !.totalJobsImported = task[s].feedTotal + task[s].counts.newJobs]

CompleteFeedUpdate(s) ==
  /\ task[s].pc = "feed"
  /\ \/ /\ feeds' = [feeds EXCEPT ![task[s].feedId] = RouteFeedUpdate(@, s)]
        /\ feedWrites' = [feedWrites EXCEPT ![s] = @ + 1]
        /\ task' = [task EXCEPT ![s] = Ended(@, "done")]
        /\ IF app = "mock" THEN Broadcast(s, "import_completed")
                           ELSE UNCHANGED <<broadcasts, wire>>
     \/ \* the update throws
        /\ task' = [task EXCEPT ![s].pc = "catch"]
        /\ UNCHANGED <<feeds, feedWrites, broadcasts, wire>>
  /\ UNCHANGED <<app, logs, responded, procRuns>>
  /\ UNCHANGED clientVars

\* catch (a missing document stays missing):
\*        mock  findByIdAndUpdate(id, {status: 'failed'});
\*        part_001  {status: 'failed', failedJobs: 1, failedJobDetails: [one]}
FailedLog(log) ==
  IF log.status = "none" THEN log
  ELSE IF app = "mock"
    THEN [log EXCEPT !.status = "failed"]
    ELSE [log EXCEPT !.status = "failed", !.failedJobs = 1,
                     !.failedJobDetails = <<0>>]

CatchLogUpdate(s) ==
  /\ task[s].pc = "catch"
  /\ task' = [task EXCEPT ![s] = Ended(@, "done")]
  /\ \/ /\ logs' = [logs EXCEPT ![s] = FailedLog(@)]
        /\ IF app = "mock" THEN Broadcast(s, "import_failed")
                           ELSE UNCHANGED <<broadcasts, wire>>
     \/ \* the update throws inside the catch: an unhandled rejection
        UNCHANGED <<logs, broadcasts, wire>>
  /\ UNCHANGED <<app, feeds, responded, procRuns, feedWrites>>
  /\ UNCHANGED clientVars

\* ------------------------------------------------------ job-import worker
\* fetchAndQueueJobs: jobQueue.add('import', {feedId, ...}, {attempts: 3})
EnqueueJob(s, f) ==
  /\ NextSlot(s)
  /\ task' = [task EXCEPT ![s] =
       [IdleTask EXCEPT !.pc = "queued", !.origin = "queue", !.feedId = f,
                        !.fetched = TRUE]]
  /\ UNCHANGED <<app, feeds, logs, broadcasts, wire, responded, procRuns, feedWrites>>
  /\ UNCHANGED clientVars

\* const importStatus = failedJobsCount === totalFetched ? 'failed' : 'completed'
ImportStatus(c) ==
  IF c.failedJobs = c.totalJobs THEN "failed" ELSE "completed"

\* ImportLog.create({totalJobs: totalFetched, totalImported, newJobs,
\*   updatedJobs, failedJobs: failedJobsCount, status: importStatus,
\*   failedJobDetails, ...})
WorkerImportLog(f, c) ==
  [status |-> ImportStatus(c), feed |-> f, totalJobs |-> c.totalJobs,
   totalImported |-> c.newJobs + c.updatedJobs, newJobs |-> c.newJobs,
   updatedJobs |-> c.updatedJobs, failedJobs |-> c.failedJobs,
   failedJobDetails |-> c.failedJobDetails]

\* One attempt of the worker function up to ImportLog.create.  The outcome
\* of each posting is decided anew in every attempt; a throw of create fails
\* the attempt and BullMQ runs the job again while attempts are left.
WorkerRun(s) ==
  /\ task[s].pc = "queued"
  /\ \/ \E items \in QueuedFeeds :
          /\ logs' = [logs EXCEPT ![s] =
                        WorkerImportLog(task[s].feedId, WorkerCounts(items))]
          /\ task' = [task EXCEPT ![s].pc = "wfeed",
                                  ![s].counts = WorkerCounts(items),
                                  ![s].attemptsMade = @ + 1]
          /\ procRuns' = [procRuns EXCEPT ![s] = @ + 1]
     \/ /\ task' = [task EXCEPT ![s] =
                      IF @.attemptsMade + 1 < QueueAttempts
                        THEN [@ EXCEPT !.attemptsMade = @ + 1]
                        ELSE Ended(@, "done")]
        /\ UNCHANGED <<logs, procRuns>>
  /\ UNCHANGED <<app, feeds, broadcasts, wire, responded, feedWrites>>
  /\ UNCHANGED clientVars

\* JobFeed.findByIdAndUpdate(feedId, {lastImport: endTime,
\*   $inc: {totalJobsImported: newJobs}})
WorkerFeedUpdate(feed, s) ==
  [feed EXCEPT !.lastImport = s,
               !.totalJobsImported = @ + task[s].counts.newJobs]

\* try { feed update } catch { console.error }; then, if (global.wss),
\* broadcast import_completed.  global.wss is set when the process was
\* started through server.js.
WorkerFinish(s) ==
  /\ task[s].pc = "wfeed"
  /\ task' = [task EXCEPT ![s] = Ended(@, "done")]
  /\ \/ /\ feeds' = [feeds EXCEPT ![task[s].feedId] = WorkerFeedUpdate(@, s)]
        /\ feedWrites' = [feedWrites EXCEPT ![s] = @ + 1]
     \/ \* the update throws: logged and swallowed
        UNCHANGED <<feeds, feedWrites>>
  /\ \/ Broadcast(s, "import_completed")
     \/ UNCHANGED <<broadcasts, wire>>
  /\ UNCHANGED <<app, logs, responded, procRuns>>
  /\ UNCHANGED clientVars

\* ------------------------------------------- browser: EnhancedFeedManager
ClientSessions == 1..MaxClientImports

FeedOf(s) == task[s].feedId

\* handleImportFeed up to the request: setImportingFeeds(add feedId), then
\* apiClient.startImport(feedId), which the route starts to serve.  The
\* pollImportStatus this call will use closes over the completedImports of
\* the render the click happened in.
HandleImportFeed(s, f) ==
  /\ FindFeed(s, f)
  /\ importingFeeds' = importingFeeds \cup {f}
  /\ imports' = [imports EXCEPT ![s] =
       [NoImport EXCEPT !.pc = "requested", !.feedId = f,
                        !.completedImports = completedImports]]
  /\ UNCHANGED <<completedImports, isConnected, lastMessage, effectPending,
                 notified, refreshes>>
  /\ UNCHANGED envVars

\* startImport resolved: info toast, pollImportStatus -> setTimeout(poll, 2000)
\* startImport rejected: remove the feed from importingFeeds, error toast
StartImportSettled(s) ==
  /\ imports[s].pc = "requested"
  /\ \/ /\ responded[s]
        /\ imports' = [imports EXCEPT ![s].pc = "waiting",
                                      ![s].raised = "Import Started",
                                      ![s].timer = PollStartDelay]
        /\ UNCHANGED importingFeeds
     \/ /\ task[s].pc = "rejected"
        /\ imports' = [imports EXCEPT ![s].pc = "ended",
                                      ![s].raised = "Failed to start import"]
        /\ importingFeeds' = importingFeeds \ {imports[s].feedId}
  /\ UNCHANGED <<app, feeds, logs, task, broadcasts, responded, procRuns,
                 feedWrites, wire>>
  /\ UNCHANGED <<completedImports, isConnected, lastMessage, effectPending,
                 notified, refreshes>>
  /\ UNCHANGED envVars

\* GET /api/import/status/:id
GetImportStatus(s) ==
  IF logs[s].status = "none" THEN "not-found" ELSE logs[s].status

\* Mutant: the resolution leaves the feed in importingFeeds.
Resolve_KeepsFeed(s, f) ==
  /\ importingFeeds' = importingFeeds
  /\ notified' = [notified EXCEPT ![s] = @ + 1]
  /\ refreshes' = [refreshes EXCEPT ![s] = @ + 1]

\* The resolution both channels perform on a terminal outcome: remove the
\* feed from importingFeeds, toast the outcome, and (after a second) loadFeeds
\* and onRefresh.
Resolve(s, f) ==
  /\ importingFeeds' = importingFeeds \ {f}
  /\ notified' = [notified EXCEPT ![s] = @ + 1]
  /\ refreshes' = [refreshes EXCEPT ![s] = @ + 1]

\* Mutant: the loop gives up without a notification.
StopToast_Silent(why) == "none"

\* The notification the poll loop raises when it gives up: error("Import
\* Timeout", ...) at the attempt limit, error("Import Status Error", ...)
\* after failed requests.
StopToast(why) ==
  IF why = "timeout" THEN "Import Timeout" ELSE "Import Status Error"

Min(a, b) == IF a < b THEN a ELSE b

RECURSIVE Pow2(_)
Pow2(n) == IF n = 0 THEN 1 ELSE 2 * Pow2(n - 1)

\* Math.min(5000 + (attempts * 1000), 15000)
InProgressDelay(attempts) == Min(5000 + attempts * 1000, 15000)

\* Math.min(10000 * Math.pow(2, consecutiveErrors - 1), 30000)
ErrorDelay(consecutiveErrors) ==
  Min(10000 * Pow2(consecutiveErrors - 1), 30000)

\* Mutant: the request is not counted.
CountAttempt_Forgets(attempts) == attempts

\* attempts++ before the status request, whatever its outcome will be.
CountAttempt(attempts) == attempts + 1

\* One run of poll() of pollImportStatus(importId = s, feedId, feedName).
\* cap bounds the runs that are explored; fails tells whether requests can
\* fail for other reasons than the answer of the route.  seen is what the
\* status request gave the loop, raised the notification this run raised.
PollRun(s, cap, fails) ==
  /\ imports[s].pc = "waiting"
  /\ imports[s].attempts < cap
  /\ LET me == imports[s]
         f == me.feedId
         attempts == CountAttempt(me.attempts)
         status == GetImportStatus(s)
     IN
     IF s \in me.completedImports
       THEN \* already completed via WebSocket: return
            /\ imports' = [imports EXCEPT ![s].pc = "ended",
                                          ![s].raised = "none",
                                          ![s].timer = 0]
            /\ UNCHANGED <<importingFeeds, completedImports, notified, refreshes>>
       ELSE
         \/ \* the request succeeds
            /\ status # "not-found"
            /\ IF status \in {"completed", "failed"}
                 THEN /\ Resolve(s, f)
                      /\ completedImports' = completedImports \ {s}
                      /\ imports' = [imports EXCEPT ![s].pc = "ended",
                                       ![s].attempts = attempts,
                                       ![s].consecutiveErrors = 0,
                                       ![s].seen = status,
                                       ![s].timer = 0,
                                       ![s].raised =
                                          IF status = "completed"
                                            THEN "Import Completed"
                                            ELSE "Import Failed"]
                 ELSE IF attempts < PollMaxAttempts
                   THEN \* setTimeout(poll, delay)
                        /\ imports' = [imports EXCEPT ![s].attempts = attempts,
                                         ![s].consecutiveErrors = 0,
                                         ![s].seen = status,
                                         ![s].timer = InProgressDelay(attempts),
                                         ![s].raised = "none"]
                        /\ UNCHANGED <<importingFeeds, completedImports,
                                       notified, refreshes>>
                   ELSE \* Import Timeout: error toast, loadFeeds, onRefresh
                        /\ imports' = [imports EXCEPT ![s].pc = "ended",
                                         ![s].attempts = attempts,
                                         ![s].consecutiveErrors = 0,
                                         ![s].seen = status,
                                         ![s].timer = 0,
                                         ![s].raised = StopToast("timeout")]
                        /\ importingFeeds' = importingFeeds \ {f}
                        /\ refreshes' = [refreshes EXCEPT ![s] = @ + 1]
                        /\ UNCHANGED <<completedImports, notified>>
         \/ \* the request throws: the route answered 404 (ApiClient.request
            \* throws on it), or a network error or a 500
            /\ status = "not-found" \/ fails
            /\ UNCHANGED <<completedImports, notified, refreshes>>
            /\ \E threw \in {"HTTP 404", "request failed"} :
                 /\ threw = "HTTP 404" <=> status = "not-found"
                 /\ IF me.consecutiveErrors + 1 >= MaxConsecutiveErrors
                         \/ attempts >= PollMaxAttempts
                      THEN \* Import Status Error toast
                           /\ imports' = [imports EXCEPT ![s].pc = "ended",
                                            ![s].attempts = attempts,
                                            ![s].consecutiveErrors = @ + 1,
                                            ![s].seen = threw,
                                            ![s].timer = 0,
                                            ![s].raised = StopToast("errors")]
                           /\ importingFeeds' = importingFeeds \ {f}
                      ELSE \* setTimeout(poll, delay)
                           /\ imports' = [imports EXCEPT ![s].attempts = attempts,
                                            ![s].consecutiveErrors = @ + 1,
                                            ![s].seen = threw,
                                            ![s].timer =
                                               ErrorDelay(me.consecutiveErrors + 1),
                                            ![s].raised = "none"]
                           /\ UNCHANGED importingFeeds
  /\ UNCHANGED <<app, feeds, logs, task, broadcasts, responded, procRuns,
                 feedWrites, wire>>
  /\ UNCHANGED <<isConnected, lastMessage, effectPending>>
  /\ UNCHANGED envVars

\* The poll run with the runs explored capped at MaxPolls.
Poll(s) == PollRun(s, MaxPolls, TRUE)

\* The poll run explored up to the loop's own limit.
PollToLimit(s) == PollRun(s, PollMaxAttempts, TRUE)

\* The poll run when every status request gets its answer.
PollAnswered(s) == PollRun(s, PollMaxAttempts, FALSE)

\* The same with the runs explored capped at MaxPolls.
PollAnsweredCapped(s) == PollRun(s, MaxPolls, FALSE)

\* useWebSocket onmessage: setLastMessage(message); the change of
\* lastMessage makes the message effect run after the next render.
SocketMessage ==
  /\ wire # <<>>
  /\ lastMessage' = Head(wire)
  /\ wire' = Tail(wire)
  /\ effectPending' = TRUE
  /\ UNCHANGED <<app, feeds, logs, task, broadcasts, responded, procRuns,
                 feedWrites>>
  /\ UNCHANGED <<importingFeeds, completedImports, imports, isConnected,
                 notified, refreshes>>
  /\ UNCHANGED envVars

\* Mutant: a terminal push event empties importingFeeds.
HandleWebSocketMessage_ClearsAll(m) ==
  IF m.type \in {"import_completed", "import_failed"}
    THEN /\ importingFeeds' = {}
         /\ notified' = [notified EXCEPT ![m.importId] = @ + 1]
         /\ refreshes' = [refreshes EXCEPT ![m.importId] = @ + 1]
         /\ completedImports' = completedImports \cup {m.importId}
    ELSE UNCHANGED <<importingFeeds, completedImports, notified, refreshes>>

\* handleWebSocketMessage(message)
HandleWebSocketMessage(m) ==
  LET s == m.importId
      f == FeedOf(s)
  IN CASE m.type = "import_started" ->
            /\ importingFeeds' = importingFeeds \cup {f}
            /\ UNCHANGED <<completedImports, notified, refreshes>>
       [] m.type \in {"import_completed", "import_failed"} ->
            /\ Resolve(s, f)
            /\ completedImports' = completedImports \cup {s}
       [] OTHER ->
            UNCHANGED <<importingFeeds, completedImports, notified, refreshes>>

\* useEffect(() => { if (lastMessage && isConnected)
\*   handleWebSocketMessage(lastMessage) }, [lastMessage, isConnected, ...])
MessageEffect ==
  /\ effectPending
  /\ effectPending' = FALSE
  /\ IF lastMessage # NoMessage /\ isConnected
       THEN HandleWebSocketMessage(lastMessage)
       ELSE UNCHANGED <<importingFeeds, completedImports, notified, refreshes>>
  /\ UNCHANGED <<app, feeds, logs, task, broadcasts, responded, procRuns,
                 feedWrites, wire>>
  /\ UNCHANGED <<imports, isConnected, lastMessage>>
  /\ UNCHANGED envVars

\* The message effect while fewer than MaxHandled outcome notifications
\* of any session were shown.
MessageEffectCapped ==
  /\ \A s \in SessionIds : notified[s] < MaxHandled
  /\ MessageEffect

\* Dashboard renders again (its search term, page, date filter or logs
\* changed) and hands EnhancedFeedManager a new onRefresh function:
\* handleWebSocketMessage, which depends on onRefresh, is a new function
\* too, and the message effect, which depends on it, is due.
DashboardRender ==
  /\ effectPending' = TRUE
  /\ UNCHANGED <<app, feeds, logs, task, broadcasts, responded, procRuns,
                 feedWrites, wire>>
  /\ UNCHANGED <<importingFeeds, completedImports, imports, isConnected,
                 lastMessage, notified, refreshes>>
  /\ UNCHANGED envVars

\* ------------------------------------------------- browser: useWebSocket
\* ws is "null" or the state of the socket in ws.current: "CONNECTING",
\* "OPEN", "FAILING" (the connection is lost, its error and close events
\* are due), "CLOSING" (its close event is due), "CLOSED".

\* Everything but the hook's own state.
hookFrame ==
  <<app, feeds, logs, task, broadcasts, responded, procRuns, feedWrites,
    importingFeeds, completedImports, imports, lastMessage,
    notified, refreshes, reply, hubVars, toggleVars, loopVars>>

\* isConnected is a dependency of the component's message effect: the
\* effect is due again when its value changes.
SetIsConnected(v) ==
  /\ isConnected' = v
  /\ effectPending' = (effectPending \/ isConnected # v)

\* Mutant: connect() without the check of the attempts.
Connect_NoLimit ==
  IF ws \in {"CONNECTING", "OPEN"}
    THEN UNCHANGED <<ws, connectionError, socketsTried>>
    ELSE /\ connectionError' = "null"
         /\ ws' = "CONNECTING"
         /\ socketsTried' = socketsTried + 1

\* connect(): refuse when the attempts are used up, return when a socket is
\* connecting or open, else new WebSocket(url) (url is WS_URL).
Connect ==
  IF reconnectAttempts >= MaxReconnectAttempts
    THEN /\ connectionError' = "Failed to connect after maxReconnectAttempts attempts"
         /\ UNCHANGED <<ws, socketsTried>>
    ELSE IF ws \in {"CONNECTING", "OPEN"}
      THEN UNCHANGED <<ws, connectionError, socketsTried>>
      ELSE /\ connectionError' = "null"
           /\ ws' = "CONNECTING"
           /\ socketsTried' = socketsTried + 1

\* useEffect(() => { connect(); return cleanup }, [url]): the effect.
Mount ==
  /\ mounted = "pending"
  /\ mounted' = "mounted"
  /\ Connect
  /\ UNCHANGED <<orphanClosing, reconnectAttempts, reconnectTimer,
                 isConnected, effectPending, wire>>
  /\ UNCHANGED hookFrame

\* ws.onopen; the server's connection handler sends connection_established.
OnOpen ==
  /\ ws = "CONNECTING"
  /\ ws' = "OPEN"
  /\ SetIsConnected(TRUE)
  /\ connectionError' = "null"
  /\ reconnectAttempts' = 0
  /\ socketsTried' = 0
  /\ wire' = Append(wire, [type |-> "connection_established", importId |-> 0])
  /\ UNCHANGED <<mounted, orphanClosing, reconnectTimer>>
  /\ UNCHANGED hookFrame

\* The connection cannot be made or is lost (server down, network, the
\* server closing it).
SocketFails ==
  /\ ws \in {"CONNECTING", "OPEN"}
  /\ ws' = "FAILING"
  /\ UNCHANGED <<mounted, orphanClosing, reconnectAttempts, reconnectTimer,
                 connectionError, socketsTried, isConnected, effectPending,
                 wire>>
  /\ UNCHANGED hookFrame

\* ws.onerror
OnError ==
  /\ ws = "FAILING"
  /\ ws' = "CLOSING"
  /\ connectionError' = "WebSocket server unavailable"
  /\ UNCHANGED <<mounted, orphanClosing, reconnectAttempts, reconnectTimer,
                 socketsTried, isConnected, effectPending, wire>>
  /\ UNCHANGED hookFrame

\* The body of ws.onclose.
OnCloseHandler ==
  /\ SetIsConnected(FALSE)
  /\ IF reconnectAttempts < MaxReconnectAttempts
       THEN /\ reconnectAttempts' = reconnectAttempts + 1
            /\ reconnectTimer' = TRUE
            /\ UNCHANGED connectionError
       ELSE /\ connectionError' = "WebSocket connection failed - server may be unavailable"
            /\ UNCHANGED <<reconnectAttempts, reconnectTimer>>

\* ws.onclose of the socket in ws.current; the messages the socket received
\* were dispatched before its close event.
OnClose ==
  /\ ws \in {"FAILING", "CLOSING"}
  /\ wire = <<>>
  /\ ws' = "CLOSED"
  /\ OnCloseHandler
  /\ UNCHANGED <<mounted, orphanClosing, socketsTried, wire>>
  /\ UNCHANGED hookFrame

\* The reconnect timeout fires: connect().
ReconnectTimerFires ==
  /\ reconnectTimer
  /\ reconnectTimer' = FALSE
  /\ Connect
  /\ UNCHANGED <<mounted, orphanClosing, reconnectAttempts, isConnected,
                 effectPending, wire>>
  /\ UNCHANGED hookFrame

\* The effect's cleanup: clearTimeout; a socket that is not closed is closed
\* with code 1000 and dropped from ws.current.  Its onclose handler stays
\* attached and runs when the close event comes.
Unmount ==
  /\ mounted = "mounted"
  /\ mounted' = "unmounted"
  /\ reconnectTimer' = FALSE
  /\ IF ws \in {"CONNECTING", "OPEN"}
       THEN ws' = "null" /\ orphanClosing' = TRUE
       ELSE UNCHANGED <<ws, orphanClosing>>
  /\ UNCHANGED <<reconnectAttempts, connectionError, socketsTried,
                 isConnected, effectPending, wire>>
  /\ UNCHANGED hookFrame

\* ws.onclose of the socket the cleanup closed.
OrphanClose ==
  /\ orphanClosing
  /\ wire = <<>>
  /\ orphanClosing' = FALSE
  /\ OnCloseHandler
  /\ UNCHANGED <<mounted, ws, socketsTried, wire>>
  /\ UNCHANGED hookFrame

\* ---------------------------------- the WebSocket server (server.js, app.js)
\* Mutant: the loop of broadcastWebSocketMessage without the readyState test.
Receivers_All == {c \in Subscribers : wssClients[c] # "none"}

\* The clients broadcastWebSocketMessage sends to: client.readyState === 1.
Receivers == {c \in Subscribers : wssClients[c] = "OPEN"}

\* How subscriber c's connection stands: "open" when the server's socket is
\* OPEN and the subscriber's end is alive.
ConnectionOf(c) ==
  CASE wssClients[c] = "none" -> "none"
    [] wssClients[c] = "CLOSING" -> "closing"
    [] wssClients[c] = "OPEN" /\ peerUp[c] -> "open"
    [] OTHER -> "dropped"

\* What does not belong to the WebSocket server and its subscribers.
hubFrame ==
  <<app, feeds, logs, task, broadcasts, responded, procRuns, feedWrites, wire,
    importingFeeds, completedImports, imports, isConnected, lastMessage,
    effectPending, notified, refreshes, reply, socketVars, toggleVars,
    loopVars>>

\* wss.on('connection'): the socket joins wss.clients, and the handler sends
\* connection_established and nothing else.
WssConnection(c) ==
  /\ wssClients[c] = "none"
  /\ wssClients' = [wssClients EXCEPT ![c] = "OPEN"]
  /\ peerUp' = [peerUp EXCEPT ![c] = TRUE]
  /\ hubLast' = [hubLast EXCEPT
                   ![c] = [type |-> "connection_established", importId |-> 0]]
  /\ UNCHANGED <<events, inbox, stateAt>>
  /\ UNCHANGED hubFrame

\* The subscriber's end goes away; the server's socket is OPEN until the
\* server learns of it.
PeerDrops(c) ==
  /\ wssClients[c] = "OPEN"
  /\ peerUp[c]
  /\ peerUp' = [peerUp EXCEPT ![c] = FALSE]
  /\ UNCHANGED <<wssClients, events, inbox, stateAt, hubLast>>
  /\ UNCHANGED hubFrame

\* The subscriber's close frame arrives: the closing handshake starts, the
\* socket stays in wss.clients with readyState CLOSING.
PeerCloses(c) ==
  /\ wssClients[c] = "OPEN"
  /\ peerUp[c]
  /\ wssClients' = [wssClients EXCEPT ![c] = "CLOSING"]
  /\ UNCHANGED <<peerUp, events, inbox, stateAt, hubLast>>
  /\ UNCHANGED hubFrame

\* ws.on('close'): the socket of a connection that ended leaves wss.clients.
WssClose(c) ==
  /\ \/ wssClients[c] = "CLOSING"
     \/ wssClients[c] = "OPEN" /\ ~peerUp[c]
  /\ wssClients' = [wssClients EXCEPT ![c] = "none"]
  /\ peerUp' = [peerUp EXCEPT ![c] = FALSE]
  /\ UNCHANGED <<events, inbox, stateAt, hubLast>>
  /\ UNCHANGED hubFrame

\* broadcastWebSocketMessage(type, data): one synchronous pass over
\* wss.clients with client.send(message) on every OPEN socket.  What is sent
\* reaches a subscriber whose end is alive, and is lost otherwise.
BroadcastWebSocketMessage ==
  /\ events < MaxEvents
  /\ events' = events + 1
  /\ stateAt' = [stateAt EXCEPT
                   ![events + 1] = [c \in Subscribers |-> ConnectionOf(c)]]
  /\ inbox' = [c \in Subscribers |->
                IF c \in Receivers /\ peerUp[c]
                  THEN [inbox[c] EXCEPT ![events + 1] = @ + 1]
                  ELSE inbox[c]]
  /\ hubLast' = [c \in Subscribers |->
                  IF c \in Receivers /\ peerUp[c]
                    THEN [type |-> "broadcast", importId |-> events + 1]
                    ELSE hubLast[c]]
  /\ UNCHANGED <<wssClients, peerUp>>
  /\ UNCHANGED hubFrame

\* ------------------------------------ the feed list and its active switch
\* What the feed list's handlers and the PATCH route leave alone.
toggleFrame ==
  <<app, logs, task, broadcasts, responded, procRuns, feedWrites, wire,
    importingFeeds, completedImports, imports, isConnected, lastMessage,
    effectPending, notified, refreshes, reply, socketVars, hubVars,
    loopVars>>

\* handleToggleFeed(feed.id, feed.isActive) up to its await: the Switch is
\* disabled while the feed is in updatingFeeds; the optimistic update, then
\* the feed joins updatingFeeds and the PATCH request leaves.
HandleToggleFeed(f) ==
  /\ f \notin updatingFeeds
  /\ toggles[f].pc = "none"
  /\ shown' = [shown EXCEPT ![f] = ~shown[f]]
  /\ updatingFeeds' = updatingFeeds \cup {f}
  /\ toggles' = [toggles EXCEPT ![f].pc = "requested",
                                ![f].currentStatus = shown[f]]
  /\ UNCHANGED <<feeds, feedsData>>
  /\ UNCHANGED toggleFrame

\* PATCH /api/feeds/:id with {isActive: !currentStatus}:
\* JobFeed.findByIdAndUpdate(id, req.body) and 200, or it throws and the
\* route answers 500, or the update is made and the answer never arrives.
PatchFeed(f) ==
  /\ toggles[f].pc = "requested"
  /\ \/ /\ feeds' = [feeds EXCEPT ![f].isActive = ~toggles[f].currentStatus]
        /\ \E pc \in {"answered", "failed"} :
             toggles' = [toggles EXCEPT ![f].pc = pc]
     \/ /\ toggles' = [toggles EXCEPT ![f].pc = "failed"]
        /\ UNCHANGED feeds
  /\ UNCHANGED <<shown, updatingFeeds, feedsData>>
  /\ UNCHANGED toggleFrame

\* Mutant: the catch block sets the value the optimistic update set.
Rollback_KeepsFlip(currentStatus) == ~currentStatus

\* catch: setFeeds(... isActive: currentStatus ...).
Rollback(currentStatus) == currentStatus

\* The rest of handleToggleFeed once the request has settled: the success
\* toast, or the rollback and the error toast; finally the feed leaves
\* updatingFeeds.
ToggleSettled(f) ==
  /\ toggles[f].pc \in {"answered", "failed"}
  /\ IF toggles[f].pc = "failed"
       THEN /\ shown' = [shown EXCEPT ![f] = Rollback(toggles[f].currentStatus)]
            /\ toggles' = [toggles EXCEPT ![f].pc = "none",
                                          ![f].last = "Failed to update feed"]
       ELSE /\ toggles' = [toggles EXCEPT
                 ![f].pc = "none",
                 ![f].last = IF toggles[f].currentStatus
                               THEN "Feed Deactivated" ELSE "Feed Activated"]
            /\ UNCHANGED shown
  /\ updatingFeeds' = updatingFeeds \ {f}
  /\ UNCHANGED <<feeds, feedsData>>
  /\ UNCHANGED toggleFrame

\* loadFeeds up to its await: apiClient.getFeeds reads the collection.
LoadFeeds ==
  /\ feedsData.pc = "none"
  /\ feedsData' = [pc |-> "loaded",
                   isActive |-> [f \in Feeds |-> feeds[f].isActive]]
  /\ UNCHANGED <<feeds, shown, updatingFeeds, toggles>>
  /\ UNCHANGED toggleFrame

\* loadFeeds after its await: setFeeds(feedsData).
LoadFeedsSettled ==
  /\ feedsData.pc = "loaded"
  /\ shown' = feedsData.isActive
  /\ feedsData' = NoFeedsData
  /\ UNCHANGED <<feeds, updatingFeeds, toggles>>
  /\ UNCHANGED toggleFrame

\* The Import button: disabled={!feed.isActive || importingFeeds.has(feed.id)}
ImportButton(s, f) ==
  /\ shown[f]
  /\ f \notin importingFeeds
  /\ HandleImportFeed(s, f)

\* fetchAndQueueJobs: JobFeed.find({isActive: true}), and for each feed
\* found its content is fetched and a job is added to the queue.
FetchAndQueueJobs(s, f) ==
  /\ feeds[f].isActive
  /\ EnqueueJob(s, f)

\* ------------------------------------------------------------ HTTP API
\* feedId values a start-import request can carry besides the id of a feed:
\* none at all, a string that is no ObjectId, the ObjectId of no feed.
RejectedFeedIds == {"missing", "malformed", "unknown"}

\* validateId(id, res, 'Feed'): false for a missing id ('undefined' and
\* 'null' likewise); any other string passes.
ValidateId(id) == id # "missing"

\* POST /api/import/start with a feedId that names no feed: the response.
\* Server/app.js: validateId, then JobFeed.findById, which throws a
\* CastError for a malformed id (caught: handleError, 500) and gives null
\* for an unknown one.  part_001 has no validateId: findById(undefined) gives
\* null, and a CastError goes to the error handler (500, err.message).
StartImportReply(q) ==
  CASE app = "mock" /\ ~ValidateId(q) ->
         [code |-> 400, message |-> "Valid feed id is required"]
    [] q = "malformed" ->
         [code |-> 500,
          message |-> IF app = "mock" THEN "Failed to start feed import"
                                      ELSE "Cast to ObjectId failed"]
    [] OTHER -> [code |-> 404, message |-> "Feed not found"]

\* GET /api/import/status/:id: the response when findById does not throw.
StatusResponse(s) ==
  IF logs[s].status = "none"
    THEN [code |-> 404, status |-> "not-found", progress |-> 0]
    ELSE [code |-> 200, status |-> logs[s].status,
          progress |-> IF logs[s].status = "completed" THEN 100 ELSE 0]

\* ApiClient.request: if (!response.ok) throw new Error(errorData.message
\* || `HTTP ${response.status}: ${response.statusText}`); else the body.
\* A thrown call gives its caller no value.
ApiRequest(call, r) ==
  IF r.code \in 200..299
    THEN [NoReply EXCEPT !.call = call, !.code = r.code, !.threw = FALSE,
                         !.status = r.status, !.progress = r.progress]
    ELSE [NoReply EXCEPT !.call = call, !.code = r.code, !.threw = TRUE,
                         !.message = IF r.message # "" THEN r.message
                                     ELSE "HTTP error"]

\* apiClient.startImport(feedId) with a feedId that names no feed.
RejectStart(q) ==
  /\ reply' = [ApiRequest("startImport",
                 [code |-> StartImportReply(q).code, status |-> "",
                  progress |-> 0, message |-> StartImportReply(q).message])
               EXCEPT !.feedId = q]
  /\ UNCHANGED <<app, feeds, logs, task, broadcasts, responded, procRuns,
                 feedWrites, wire>>
  /\ UNCHANGED <<importingFeeds, completedImports, imports, isConnected,
                 lastMessage, effectPending, notified, refreshes>>
  /\ UNCHANGED <<socketVars, hubVars, toggleVars, loopVars>>

\* apiClient.getImportStatus(importId) by any caller; ImportLog.findById may
\* throw (handleError: 500 with a message).
GetStatusCall(s) ==
  /\ \/ reply' = [ApiRequest("getImportStatus",
                    [code |-> StatusResponse(s).code,
                     status |-> StatusResponse(s).status,
                     progress |-> StatusResponse(s).progress,
                     message |-> ""])
                  EXCEPT !.importId = s]
     \/ reply' = [ApiRequest("getImportStatus",
                    [code |-> 500, status |-> "", progress |-> 0,
                     message |-> "Failed to get import status"])
                  EXCEPT !.importId = s]
  /\ UNCHANGED <<app, feeds, logs, task, broadcasts, responded, procRuns,
                 feedWrites, wire>>
  /\ UNCHANGED <<importingFeeds, completedImports, imports, isConnected,
                 lastMessage, effectPending, notified, refreshes>>
  /\ UNCHANGED <<socketVars, hubVars, toggleVars, loopVars>>

\* DELETE /api/import-logs/:id (Server/app.js only): findByIdAndDelete.
DeleteImportLog(s) ==
  /\ app = "mock"
  /\ logs[s].status # "none"
  /\ logs' = [logs EXCEPT ![s] = NoLog]
  /\ UNCHANGED <<app, feeds, task, broadcasts, responded, procRuns,
                 feedWrites, wire>>
  /\ UNCHANGED clientVars

\* ------------------------------------------------------------------ specs
Next ==
  \/ \E s \in SessionIds, f \in Feeds : StartFindFeed(s, f)
  \/ \E s \in SessionIds : StartCreateLog(s)
  \/ \E s \in SessionIds : TimerFire(s)
  \/ \E s \in SessionIds : FetchFeed(s)
  \/ \E s \in SessionIds : CompleteLogUpdate(s)
  \/ \E s \in SessionIds : CompleteFeedUpdate(s)
  \/ \E s \in SessionIds : CatchLogUpdate(s)
  \/ \E s \in SessionIds, f \in Feeds : EnqueueJob(s, f)
  \/ \E s \in SessionIds : WorkerRun(s)
  \/ \E s \in SessionIds : WorkerFinish(s)

\* The server: route requests from anywhere, and the worker.
Spec == Init /\ [][Next]_vars

\* One browser with its socket open, starting imports against the route.
ClientInit ==
  /\ InitServer
  /\ InitClient(TRUE)

ClientNext ==
  \/ \E s \in ClientSessions, f \in Feeds : HandleImportFeed(s, f)
  \/ \E s \in SessionIds : StartCreateLog(s)
  \/ \E s \in SessionIds : StartImportSettled(s)
  \/ \E s \in SessionIds : TimerFire(s)
  \/ \E s \in SessionIds : FetchFeed(s)
  \/ \E s \in SessionIds : CompleteLogUpdate(s)
  \/ \E s \in SessionIds : CompleteFeedUpdate(s)
  \/ \E s \in SessionIds : CatchLogUpdate(s)
  \/ \E s \in SessionIds : Poll(s)
  \/ SocketMessage
  \/ MessageEffect

ClientSpec == ClientInit /\ [][ClientNext]_vars

\* One import started by the browser and followed by its poll loop up to
\* the loop's own limits, with the socket open or not, status requests that
\* can fail, and the log deletable meanwhile.
PollInit ==
  /\ InitServer
  /\ \E connected \in BOOLEAN : InitClient(connected)

PollNext ==
  \/ \E f \in Feeds : HandleImportFeed(1, f)
  \/ \E s \in SessionIds : StartCreateLog(s)
  \/ \E s \in SessionIds : StartImportSettled(s)
  \/ \E s \in SessionIds : TimerFire(s)
  \/ \E s \in SessionIds : FetchFeed(s)
  \/ \E s \in SessionIds : CompleteLogUpdate(s)
  \/ \E s \in SessionIds : CompleteFeedUpdate(s)
  \/ \E s \in SessionIds : CatchLogUpdate(s)
  \/ \E s \in SessionIds : DeleteImportLog(s)
  \/ \E s \in SessionIds : PollToLimit(s)
  \/ SocketMessage
  \/ MessageEffect

PollSpec == PollInit /\ [][PollNext]_vars

\* The same import when the push channel delivers nothing (the socket is
\* not open) and every status request gets its answer.  The timers of the
\* poll loop fire: weak fairness of the poll run.
PollAloneNext ==
  \/ \E f \in Feeds : HandleImportFeed(1, f)
  \/ \E s \in SessionIds : StartCreateLog(s)
  \/ \E s \in SessionIds : StartImportSettled(s)
  \/ \E s \in SessionIds : TimerFire(s)
  \/ \E s \in SessionIds : FetchFeed(s)
  \/ \E s \in SessionIds : CompleteLogUpdate(s)
  \/ \E s \in SessionIds : CompleteFeedUpdate(s)
  \/ \E s \in SessionIds : CatchLogUpdate(s)
  \/ \E s \in SessionIds : PollAnswered(s)

PollAloneSpec ==
  /\ Init
  /\ [][PollAloneNext]_vars
  /\ WF_vars(\E s \in SessionIds : PollAnswered(s))

\* Two imports of the two feeds, one after the other clicked and then
\* running side by side, with the socket open and every status request
\* answered.  Timers fire, received messages are rendered: weak fairness of
\* each import's poll run.
TwoFeedsNext ==
  \/ HandleImportFeed(1, "F")
  \/ HandleImportFeed(2, "G")
  \/ \E s \in SessionIds : StartCreateLog(s)
  \/ \E s \in SessionIds : StartImportSettled(s)
  \/ \E s \in SessionIds : TimerFire(s)
  \/ \E s \in SessionIds : FetchFeed(s)
  \/ \E s \in SessionIds : CompleteLogUpdate(s)
  \/ \E s \in SessionIds : CompleteFeedUpdate(s)
  \/ \E s \in SessionIds : CatchLogUpdate(s)
  \/ \E s \in SessionIds : PollAnsweredCapped(s)
  \/ SocketMessage
  \/ MessageEffect

TwoFeedsSpec ==
  /\ ClientInit
  /\ [][TwoFeedsNext]_vars
  /\ \A s \in SessionIds : WF_vars(PollAnsweredCapped(s))

\* The useWebSocket hook over its lifetime, with the messages it receives
\* rendered by the component.
SocketNext ==
  \/ Mount
  \/ OnOpen
  \/ SocketFails
  \/ OnError
  \/ OnClose
  \/ ReconnectTimerFires
  \/ Unmount
  \/ OrphanClose
  \/ SocketMessage
  \/ MessageEffect

SocketSpec == Init /\ [][SocketNext]_vars

\* The WebSocket server alone: subscribers connect, drop, close, and the
\* routes broadcast.
BroadcastNext ==
  \/ \E c \in Subscribers : WssConnection(c)
  \/ \E c \in Subscribers : PeerDrops(c)
  \/ \E c \in Subscribers : PeerCloses(c)
  \/ \E c \in Subscribers : WssClose(c)
  \/ BroadcastWebSocketMessage

BroadcastSpec == Init /\ [][BroadcastNext]_vars

\* The feed list: switches toggled, the PATCH route, reloads of the list.
ToggleNext ==
  \/ \E f \in Feeds : HandleToggleFeed(f)
  \/ \E f \in Feeds : PatchFeed(f)
  \/ \E f \in Feeds : ToggleSettled(f)
  \/ LoadFeeds
  \/ LoadFeedsSettled

\* The browser starts an import of feed F, and so does another caller of
\* the route; the browser's socket is open.
SharedFeedNext ==
  \/ HandleImportFeed(1, "F")
  \/ StartFindFeed(2, "F")
  \/ \E s \in SessionIds : StartCreateLog(s)
  \/ \E s \in SessionIds : StartImportSettled(s)
  \/ \E s \in SessionIds : TimerFire(s)
  \/ \E s \in SessionIds : FetchFeed(s)
  \/ \E s \in SessionIds : CompleteLogUpdate(s)
  \/ \E s \in SessionIds : CompleteFeedUpdate(s)
  \/ \E s \in SessionIds : CatchLogUpdate(s)
  \/ \E s \in SessionIds : Poll(s)
  \/ SocketMessage
  \/ MessageEffect

SharedFeedSpec == ClientInit /\ [][SharedFeedNext]_vars

\* A browser that only listens: an import of F is started by another
\* caller, its socket drops and reconnects, its Dashboard renders again.
ReplayNext ==
  \/ StartFindFeed(1, "F")
  \/ \E s \in SessionIds : StartCreateLog(s)
  \/ \E s \in SessionIds : TimerFire(s)
  \/ \E s \in SessionIds : FetchFeed(s)
  \/ \E s \in SessionIds : CompleteLogUpdate(s)
  \/ \E s \in SessionIds : CompleteFeedUpdate(s)
  \/ \E s \in SessionIds : CatchLogUpdate(s)
  \/ SocketMessage
  \/ MessageEffectCapped
  \/ DashboardRender
  \/ SocketFails
  \/ OnError
  \/ OnClose
  \/ ReconnectTimerFires
  \/ OnOpen

ReplaySpec == ClientInit /\ [][ReplayNext]_vars

\* The listening browser with everything that is due happening: the server
\* finishes what it started, messages on the socket are received and the
\* effect runs, a lost socket is closed, reconnected and opened again.
ListenerSpec ==
  /\ ClientInit
  /\ [][ReplayNext]_vars
  /\ \A s \in SessionIds :
        /\ WF_vars(StartCreateLog(s))
        /\ WF_vars(TimerFire(s))
        /\ WF_vars(FetchFeed(s))
        /\ WF_vars(CompleteLogUpdate(s))
        /\ WF_vars(CompleteFeedUpdate(s))
        /\ WF_vars(CatchLogUpdate(s))
  /\ WF_vars(SocketMessage)
  /\ WF_vars(MessageEffectCapped)
  /\ WF_vars(OnClose)
  /\ WF_vars(ReconnectTimerFires)
  /\ WF_vars(OnOpen)

ToggleSpec == Init /\ [][ToggleNext]_vars

\* One run of a per-posting loop over any feed of up to MaxItems postings.
LoopNext ==
  \/ \E items \in FeedsOver(FetchKinds) : LoopStart("route", items)
  \/ \E items \in FeedsOver(WorkerKinds) : LoopStart("queue", items)
  \/ ProcessPosting
  \/ LoopEnd

LoopSpec == Init /\ [][LoopNext]_vars

\* Imports started by hand (any caller of the route, the Import button) and
\* by the scheduled fetch, while feeds are switched on and off.
StartNext ==
  \/ \E f \in Feeds : HandleToggleFeed(f)
  \/ \E f \in Feeds : PatchFeed(f)
  \/ \E f \in Feeds : ToggleSettled(f)
  \/ \E s \in SessionIds, f \in Feeds : StartFindFeed(s, f)
  \/ \E s \in SessionIds, f \in Feeds : ImportButton(s, f)
  \/ \E s \in SessionIds : StartCreateLog(s)
  \/ \E s \in SessionIds, f \in Feeds : FetchAndQueueJobs(s, f)
  \/ \E s \in SessionIds : WorkerRun(s)

StartSpec == Init /\ [][StartNext]_vars

\* The HTTP API as any caller sees it: the start-import route with its
\* out-of-band step, status queries, rejected requests, log deletion.
ApiNext ==
  \/ \E s \in SessionIds, f \in Feeds : StartFindFeed(s, f)
  \/ \E s \in SessionIds : StartCreateLog(s)
  \/ \E s \in SessionIds : TimerFire(s)
  \/ \E s \in SessionIds : FetchFeed(s)
  \/ \E s \in SessionIds : CompleteLogUpdate(s)
  \/ \E s \in SessionIds : CompleteFeedUpdate(s)
  \/ \E s \in SessionIds : CatchLogUpdate(s)
  \/ \E q \in RejectedFeedIds : RejectStart(q)
  \/ \E s \in SessionIds : GetStatusCall(s)
  \/ \E s \in SessionIds : DeleteImportLog(s)

ApiSpec == Init /\ [][ApiNext]_vars

\* =================================================================== claims
Terminal == {"completed", "failed"}

RECURSIVE SumNewJobs(_)
SumNewJobs(S) ==
  IF S = {} THEN 0
  ELSE LET s == CHOOSE x \in S : TRUE
       IN logs[s].newJobs + SumNewJobs(S \ {s})

\* C1: the persisted status of a session changes at most once, from
\* in_progress to completed or failed, and once it is terminal neither the
\* status nor the counts of the document change again.
C1_StatusChangesOnce ==
  [][\A s \in SessionIds :
       /\ logs[s].status = "in_progress" =>
            logs'[s].status \in {"in_progress"} \cup Terminal
       /\ logs[s].status \in Terminal => logs'[s] = logs[s]]_vars

\* The sessions of feed f whose processing ran to its end as completed, each
\* having made its feed-aggregate write.
CompletedSessions(f) ==
  {s \in SessionIds : /\ task[s].pc = "done"
                      /\ logs[s].feed = f
                      /\ logs[s].status = "completed"
                      /\ feedWrites[s] = 1}
\* No session of f is under way, and each one that wrote a log made its
\* feed write.
Settled(f) ==
  \A s \in SessionIds :
     task[s].feedId = f =>
        /\ task[s].pc \in {"done", "rejected"}
        /\ logs[s].status = "completed" => feedWrites[s] = 1
        /\ logs[s].status # "completed" => feedWrites[s] = 0

\* C3: once the sessions of a feed have completed, overlapping or not, the
\* feed's totalJobsImported is its initial value (0) plus the sum of their
\* newJobs.
C3_TotalIsSumOfNewJobs ==
  \A f \in Feeds :
     Settled(f) =>
        feeds[f].totalJobsImported = SumNewJobs(CompletedSessions(f))

\* C4: import_completed is broadcast for a session only after its terminal
\* status is stored and its feed-aggregate update has been applied.
C4_BroadcastAfterWrites ==
  \A s \in SessionIds :
     broadcasts[s].import_completed > 0 =>
        /\ logs[s].status \in Terminal
        /\ feedWrites[s] > 0

\* C5: in every completed import log, newJobs + updatedJobs + failedJobs
\* equals totalJobs.
C5_CountsAddUp ==
  \A s \in SessionIds :
     logs[s].status = "completed" =>
        logs[s].newJobs + logs[s].updatedJobs + logs[s].failedJobs
          = logs[s].totalJobs

\* C6: in every persisted import log, in every state of its lifecycle, the
\* length of failedJobDetails equals failedJobs.
C6_DetailsMatchFailedJobs ==
  \A s \in SessionIds :
     logs[s].status # "none" =>
        Len(logs[s].failedJobDetails) = logs[s].failedJobs

C6_Witness ==
  \E s, t \in SessionIds :
     /\ logs[s].status = "completed" /\ logs[s].failedJobs = 2
     /\ logs[t].status = "failed" /\ logs[t].failedJobs = 1

\* C7: a session that ends with status failed never modifies its feed's
\* lastImport or totalJobsImported.
C7_FailedLeavesFeedAlone ==
  \A s \in SessionIds :
     logs[s].status = "failed" => feedWrites[s] = 0

\* C8: a session whose feed content was fetched is recorded as completed
\* whatever the postings did; failed is recorded only when the feed could
\* not be fetched.
C8_FetchedMeansCompleted ==
  \A s \in SessionIds :
     logs[s].status = "failed" => ~task[s].fetched

\* C9: when the 202 response of startImport is sent, the session is stored
\* with status in_progress and all counts zero, nothing of the processing
\* step has taken effect, and the processing step is entered only for a
\* session whose response has been sent.
C9_AcknowledgedBeforeOutcome ==
  [][\A s \in SessionIds :
       /\ (~responded[s] /\ responded'[s]) =>
             /\ logs'[s].status = "in_progress"
             /\ logs'[s].totalJobs = 0 /\ logs'[s].newJobs = 0
             /\ logs'[s].updatedJobs = 0 /\ logs'[s].failedJobs = 0
             /\ logs'[s].totalImported = 0
             /\ task'[s].pc \in {"timer", "fetching"}
             /\ feedWrites'[s] = 0
       /\ (task'[s].origin = "route" /\ procRuns'[s] > procRuns[s]) =>
             responded'[s]]_vars

C9_Witness ==
  \E s \in SessionIds :
     /\ responded[s] /\ task[s].pc = "timer"
     /\ logs[s].status = "in_progress" /\ procRuns[s] = 0

\* C10: every accepted startImport call has a session of its own, and the
\* processing step of a session is never entered twice, writes the feed
\* aggregates at most once, and has been entered exactly once whenever the
\* session is terminal or its out-of-band step has ended.
C10_ProcessedOnce ==
  \A s \in SessionIds :
     /\ procRuns[s] <= 1
     /\ feedWrites[s] <= 1
     /\ responded[s] => logs[s].status # "none"
     /\ logs[s].status \in Terminal => procRuns[s] = 1
     /\ (responded[s] /\ task[s].pc = "done") => procRuns[s] = 1

C10_Witness ==
  \E s, t \in SessionIds :
     /\ s # t
     /\ responded[s] /\ responded[t]
     /\ task[s].feedId = task[t].feedId
     /\ task[s].pc = "done" /\ task[t].pc = "done"
     /\ procRuns[s] = 1 /\ procRuns[t] = 1

\* C2: a terminal outcome delivered both as a push event and by the status
\* poll, in either order, gives exactly one outcome notification and exactly
\* one refresh of the listings for that session.
C2_ResolvedOnce ==
  \A s \in SessionIds : notified[s] <= 1 /\ refreshes[s] <= 1

\* C11: for every session of the start-import route whose step has ended
\* with a terminal stored status, exactly one terminal notification was
\* broadcast and its type matches the status: import_completed for
\* completed, import_failed for failed, never both and never none.
C11_OneMatchingNotification ==
  \A s \in SessionIds :
     (task[s].origin = "route" /\ task[s].pc = "done"
        /\ logs[s].status \in Terminal) =>
        /\ broadcasts[s].import_completed
             = (IF logs[s].status = "completed" THEN 1 ELSE 0)
        /\ broadcasts[s].import_failed
             = (IF logs[s].status = "failed" THEN 1 ELSE 0)

\* C12: getStatus on a session id that does not exist gives its caller the
\* sentinel status not-found as a readable value; the call does not throw.
C12_NotFoundIsAValue ==
  (reply.call = "getImportStatus" /\ reply.code = 404) =>
     (~reply.threw /\ reply.status = "not-found")

\* C13: a status query that gives its caller a value reports progress 0 for
\* in_progress and progress 100 for a terminal status, completed or failed.
C13_ProgressByStatus ==
  (reply.call = "getImportStatus" /\ ~reply.threw) =>
     /\ reply.status = "in_progress" => reply.progress = 0
     /\ reply.status \in Terminal => reply.progress = 100

\* C18: a start-import request is answered 400 when its feedId is missing
\* or malformed and 404 when it names no feed, and answering it creates no
\* import log, changes no feed and broadcasts nothing.
C18_RejectedStartImport ==
  [][(reply' # reply /\ reply'.call = "startImport") =>
        /\ reply'.feedId \in {"missing", "malformed"} => reply'.code = 400
        /\ reply'.feedId = "unknown" => reply'.code = 404
        /\ UNCHANGED <<logs, feeds, broadcasts>>]_vars

OutcomeToasts == {"Import Completed", "Import Failed"}
ErrorToasts == {"Import Timeout", "Import Status Error"}

\* C14: with the push channel delivering nothing and status requests
\* answered, the poll loop alone resolves the session: it does not give up
\* before its attempt limit, and once the stored status is terminal while
\* the loop is running, the client eventually removes the feed from
\* importingFeeds and shows the outcome.
C14_PollAloneResolves ==
  /\ [](\A s \in SessionIds :
          (imports[s].pc = "ended" /\ imports[s].raised \notin OutcomeToasts)
             => \/ imports[s].raised = "Failed to start import"
                \/ imports[s].attempts = PollMaxAttempts)
  /\ \A s \in SessionIds :
        (imports[s].pc = "waiting" /\ logs[s].status \in Terminal)
          ~> (/\ imports[s].pc = "ended"
              /\ imports[s].feedId \notin importingFeeds
              /\ imports[s].raised \in OutcomeToasts
              /\ notified[s] = 1)

C14_Witness ==
  \E s \in SessionIds :
     /\ ~isConnected
     /\ imports[s].pc = "ended" /\ imports[s].attempts > 1
     /\ imports[s].raised = "Import Completed"
     /\ imports[s].feedId \notin importingFeeds

\* C17: a run of the poll loop that stops polling without having seen a
\* terminal status raises an error notification of its own, and no run of
\* the loop removes the feed from importingFeeds without raising a
\* notification.
C17_NoSilentStop ==
  [][\A s \in SessionIds :
       (imports[s].pc = "waiting" /\ imports'[s] # imports[s]) =>
          /\ (imports'[s].pc = "ended" /\ imports'[s].seen \notin Terminal)
                => imports'[s].raised \in ErrorToasts
          /\ (imports[s].feedId \in importingFeeds
                /\ imports[s].feedId \notin importingFeeds')
                => imports'[s].raised \in OutcomeToasts \cup ErrorToasts]_vars

C17_Witness ==
  \E s \in SessionIds :
     /\ imports[s].pc = "ended"
     /\ imports[s].attempts = PollMaxAttempts
     /\ imports[s].seen = "in_progress"
     /\ imports[s].raised = "Import Timeout"
     /\ imports[s].feedId \notin importingFeeds

\* C20: when a status query reports that the session does not exist, the
\* poll loop does not query again, and it surfaces the condition as a
\* state of its own, neither the generic request failure nor in_progress.
C20_NotFoundNotRetried ==
  \A s \in SessionIds :
     imports[s].seen = "HTTP 404" =>
        /\ imports[s].pc = "ended"
        /\ imports[s].raised \notin {"none", "Import Status Error"}

\* A step that belongs to session s: it changes the session's record, its
\* feed write, its broadcasts, or its resolution at the client.
StepOf(s) ==
  \/ logs'[s] # logs[s]
  \/ feedWrites'[s] # feedWrites[s]
  \/ broadcasts'[s] # broadcasts[s]
  \/ notified'[s] # notified[s]
  \/ imports'[s] # imports[s]

C16_ReconnectBounded ==
  /\ [](/\ reconnectAttempts <= MaxReconnectAttempts
        /\ socketsTried <= MaxReconnectAttempts
        /\ (mounted = "mounted" /\ ~reconnectTimer
              /\ reconnectAttempts = MaxReconnectAttempts)
             => connectionError # "null")
  /\ [][/\ (ws = "CONNECTING" /\ ws' = "OPEN") => reconnectAttempts' = 0
        /\ (ws \in {"FAILING", "CLOSING"} /\ ws' = "CLOSED"
              /\ reconnectAttempts < MaxReconnectAttempts)
             => (reconnectTimer' /\ reconnectAttempts' = reconnectAttempts + 1)
        /\ reconnectAttempts = MaxReconnectAttempts
             => /\ reconnectAttempts' = MaxReconnectAttempts
                /\ socketsTried' = socketsTried
                /\ ws' # "CONNECTING"]_vars

C16_Witness ==
  /\ mounted = "mounted"
  /\ reconnectAttempts = MaxReconnectAttempts
  /\ socketsTried = MaxReconnectAttempts
  /\ ~reconnectTimer
  /\ connectionError = "Failed to connect after maxReconnectAttempts attempts"

\* C19: every broadcast event reached exactly once each subscriber whose
\* connection was open when it was broadcast, and never reaches any other
\* subscriber: not one that was disconnected or disconnecting then, whether
\* it reconnects later or not; a subscriber that was disconnecting at the
\* broadcast takes nothing from the subscribers that were open.
C19_BroadcastToOpenOnly ==
  \A e \in 1..events : \A c \in Subscribers :
    inbox[c][e] = IF stateAt[e][c] = "open" THEN 1 ELSE 0

\* An event was broadcast while a was open and b was disconnecting; b has
\* reconnected since and got connection_established only.
C19_Witness ==
  \E e \in 1..events :
    /\ stateAt[e]["a"] = "open"
    /\ stateAt[e]["b"] \in {"dropped", "closing"}
    /\ inbox["a"][e] = 1
    /\ inbox["b"][e] = 0
    /\ ConnectionOf("b") = "open"
    /\ hubLast["b"].type = "connection_established"

\* C21: handleToggleFeed flips the displayed isActive of the feed at once and
\* puts the feed in updatingFeeds; when the update request has failed the
\* displayed isActive is set back to the value displayed before the toggle;
\* and once the request has settled, whatever its outcome, the feed is not
\* in updatingFeeds.
C21_OptimisticToggle ==
  /\ [](\A f \in Feeds : toggles[f].pc = "none" <=> f \notin updatingFeeds)
  /\ [][\A f \in Feeds :
          /\ (toggles[f].pc = "none" /\ toggles'[f].pc = "requested")
               => (shown'[f] = ~shown[f] /\ toggles'[f].currentStatus = shown[f])
          /\ (toggles[f].pc \in {"answered", "failed"} /\ toggles'[f].pc = "none")
               => /\ f \notin updatingFeeds'
                  /\ toggles[f].pc = "failed"
                       => shown'[f] = toggles[f].currentStatus]_vars

\* A toggle whose request failed was rolled back, while the update had been
\* made on the server.
C21_Witness ==
  \E f \in Feeds :
    /\ toggles[f].pc = "none"
    /\ toggles[f].last = "Failed to update feed"
    /\ shown[f] = toggles[f].currentStatus
    /\ feeds[f].isActive # shown[f]
    /\ f \notin updatingFeeds

\* C22: an import session is created only for a feed whose isActive is true
\* when the session is created.
C22_NoImportOfInactiveFeed ==
  [][\A s \in SessionIds :
       (logs[s].status = "none" /\ logs'[s].status # "none")
          => feeds[logs'[s].feed].isActive]_vars

\* C23: every import log whose status is completed has
\* totalImported = newJobs + updatedJobs.
C23_TotalImportedIsNewPlusUpdated ==
  \A s \in SessionIds :
     logs[s].status = "completed" =>
        logs[s].totalImported = logs[s].newJobs + logs[s].updatedJobs

\* C24: the per-posting loop classifies the postings in order, each exactly
\* once as new, updated or failed; a posting whose processing throws is
\* counted as failed and its detail is recorded; the loop ends only after
\* the last posting, so the postings after a failing one are processed too.
\* The counters it ends with are those the import log is written from.
C24_EveryPostingClassifiedOnce ==
  LET expected(i) == IF loop.origin = "route" THEN FetchOutcome(loop.items[i])
                                              ELSE WorkerOutcome(loop.items[i])
      n == Len(loop.outcomes)
  IN /\ loop.pc = "looping" => n = loop.i - 1
     /\ n <= Len(loop.items)
     /\ \A i \in 1..n : loop.outcomes[i] = expected(i)
     /\ loop.counts.newJobs + loop.counts.updatedJobs + loop.counts.failedJobs = n
     /\ loop.counts.failedJobDetails =
          SelectSeq([i \in 1..n |-> i], LAMBDA i : loop.outcomes[i] = "failed")
     /\ loop.pc = "done" =>
          /\ n = Len(loop.items)
          /\ loop.counts = IF loop.origin = "route"
                             THEN FetchCounts(loop.items)
                             ELSE WorkerCounts(loop.items)

\* A loop that ended: its first posting threw, a later one was imported.
C24_Witness ==
  /\ loop.pc = "done"
  /\ Len(loop.items) = MaxItems
  /\ loop.outcomes[1] = "failed"
  /\ loop.outcomes[MaxItems] = "new"
  /\ loop.counts.failedJobDetails = <<1>>

\* C25: the wait the poll loop sets after an in_progress answer is 5 s
\* after the first attempt, 1 s more after each further attempt, and never
\* more than 15 s; the wait it sets after the k-th consecutive request error
\* is min(10 s * 2^(k-1), 30 s).
C25_PollBackoff ==
  \A s \in SessionIds :
     (imports[s].pc = "waiting" /\ imports[s].attempts > 0) =>
        IF imports[s].consecutiveErrors = 0
          THEN imports[s].timer = Min(5000 + (imports[s].attempts - 1) * 1000, 15000)
          ELSE imports[s].timer =
                 Min(10000 * Pow2(imports[s].consecutiveErrors - 1), 30000)

\* C26: while a session the client started is in_progress on the server and
\* its poll loop is running, the session's feed is in importingFeeds.
C26_FeedStaysWhileInProgress ==
  \A s \in SessionIds :
     (imports[s].pc = "waiting" /\ logs[s].status = "in_progress")
        => imports[s].feedId \in importingFeeds

\* C27: a push message is handled at most once: the outcome notifications
\* a listening client shows for a session are never more than the outcome
\* events that were broadcast for it, whatever the socket and the renders do.
C27_MessageHandledOnce ==
  \A s \in SessionIds :
     notified[s] <= broadcasts[s].import_completed + broadcasts[s].import_failed

\* C28: once the hook's cleanup has run, no reconnect is scheduled and no
\* connection is opened.
C28_NoReconnectAfterCleanup ==
  [][mounted = "unmounted" =>
        /\ reconnectTimer' => reconnectTimer
        /\ socketsTried' = socketsTried
        /\ ws' = ws]_vars

\* C29: a poll loop issues at most 60 status requests, failed ones
\* included; a timer is pending exactly while the loop is running, so none
\* is left after the loop's last request; and every run of a running loop
\* either ends it or uses up one of the 60 requests, so it cannot go on
\* without ending.
C29_PollLoopTerminates ==
  /\ [](\A s \in SessionIds :
          /\ imports[s].attempts <= PollMaxAttempts
          /\ imports[s].consecutiveErrors <= MaxConsecutiveErrors
          /\ imports[s].timer > 0 <=> imports[s].pc = "waiting"
          /\ imports[s].pc = "waiting" => imports[s].attempts < PollMaxAttempts
          /\ imports[s].attempts = PollMaxAttempts => imports[s].pc = "ended")
  /\ [][\A s \in SessionIds :
          (imports[s].pc = "waiting" /\ imports'[s] # imports[s]) =>
             \/ imports'[s].pc = "ended" /\ imports'[s].timer = 0
             \/ imports'[s].attempts = imports[s].attempts + 1]_vars

\* A loop that made its 60th request after failed and answered requests and
\* ended with no timer pending.
C29_Witness ==
  \E s \in SessionIds :
     /\ imports[s].attempts = PollMaxAttempts
     /\ imports[s].pc = "ended"
     /\ imports[s].timer = 0
     /\ imports[s].seen = "request failed"

\* C30: a feed that is in importingFeeds when its session is terminal on the
\* server is eventually removed from importingFeeds, also on a client that
\* only listens to the push channel.
C30_ImportingFeedEventuallyRemoved ==
  \A s \in SessionIds : \A f \in Feeds :
     (logs[s].status \in Terminal /\ logs[s].feed = f /\ f \in importingFeeds)
        ~> (f \notin importingFeeds)

====
